---- MODULE Spec2Model ----
(***************************************************************************)
(* Model of the voice-to-text transcriber: the transcription ledger        *)
(* (transcriber.py: load_transcription_counter, save_transcription), the   *)
(* Web Speech capture component (the JavaScript of                         *)
(* get_web_speech_component) and the part of main() that receives a        *)
(* transcript and stores it; the report requestor, the text and JSON       *)
(* exports (medical_report_generator.py) and the PDF layout                *)
(* (create_pdf_report).                                                    *)
(*                                                                         *)
(* Text is a sequence of one-character strings, so that trim/strip and     *)
(* split are computed and not assumed.                                     *)
(***************************************************************************)
EXTENDS Integers, Sequences, FiniteSets, TLC

VARIABLES
    file,          \* transcriptions/all_transcriptions.json: <<>> absent, <<doc>> present
    dirExists,     \* the transcriptions/ directory exists
    clock,         \* wall clock, in seconds
    ret,           \* what the last ledger call returned
    ids,           \* the ids save_transcription has returned, oldest first
    wpc,           \* per concurrent writer: position inside save_transcription
    wlocal,        \* per concurrent writer: the (counter, transcriptions) it loaded
    wtext,         \* per concurrent writer: the text it is saving
    wret,          \* per concurrent writer: the id its call returned (0: none yet)
    supported,     \* the browser has SpeechRecognition (line 314)
    scriptsRun,    \* the browser runs the <script> text main() passes to st.markdown
                   \* (lines 809-840); the source does not decide whether it does
    recState,      \* the browser's recognizer: "idle", "starting", "running", "ending"
    finalTranscript,   \* let finalTranscript (line 308)
    isRecognizing,     \* let isRecognizing (line 309)
    startDisabled,     \* #start-speech-btn .disabled
    stopDisabled,      \* #stop-speech-btn .disabled
    saveDisabled,      \* #save-speech-btn .disabled
    status,            \* #speech-status, which of its messages it shows
    interimDisplay,    \* #interim-speech-transcript
    finalDisplay,      \* #final-speech-transcript
    displayShown,      \* #speech-transcript-display is visible
    timers,            \* number of running setInterval timers
    timerLive,         \* the timer speechTimerInterval refers to is running
    resetPending,      \* number of scheduled resetSpeechTranscriber timeouts
    emitted,           \* the final results delivered since the last start, in order
    inbox,             \* speech_transcript_ready messages posted and not yet delivered
    queryParams,       \* st.query_params
    session_state,     \* st.session_state
    call               \* the report, export or layout call in progress: its
                       \* arguments, what it has done and what it returned

ledgerVars == <<file, dirExists, clock, ret, ids>>
writerVars == <<wpc, wlocal, wtext, wret>>
jsVars == <<recState, finalTranscript, isRecognizing, startDisabled, stopDisabled,
            saveDisabled, status, interimDisplay, finalDisplay, displayShown,
            timers, timerLive, resetPending, emitted, inbox>>
pageVars == <<supported, scriptsRun, queryParams, session_state>>
appVars == <<jsVars, pageVars>>
toolVars == <<call>>
vars == <<file, dirExists, clock, ret, ids, wpc, wlocal, wtext, wret,
          supported, scriptsRun, recState, finalTranscript, isRecognizing,
          startDisabled, stopDisabled, saveDisabled, status, interimDisplay,
          finalDisplay, displayShown, timers, timerLive, resetPending, emitted,
          inbox, queryParams, session_state, call>>

----------------------------------------------------------------------------
(* Bounds *)

\* the ledger calls stop once the persisted counter reaches this
MaxSaves == 3
\* the clock stops here
MaxClock == 1
\* the page is opened with a query string only while the counter is below this
MaxAppSaves == 2

----------------------------------------------------------------------------
(* Text *)

IsSpace(c) == c \in {" ", "\n"}

RECURSIVE lstrip(_)
lstrip(s) ==
    IF s = <<>> THEN <<>>
    ELSE IF IsSpace(Head(s)) THEN lstrip(Tail(s)) ELSE s

RECURSIVE rstrip(_)
rstrip(s) ==
    IF s = <<>> THEN <<>>
    ELSE IF IsSpace(s[Len(s)]) THEN rstrip(SubSeq(s, 1, Len(s) - 1)) ELSE s

\* Python str.strip() and JavaScript String.prototype.trim()
strip(s) == rstrip(lstrip(s))

\* Python str.split() with no separator: the maximal runs of non-whitespace
RECURSIVE splitFrom(_, _, _)
splitFrom(s, cur, acc) ==
    IF s = <<>> THEN (IF cur = <<>> THEN acc ELSE Append(acc, cur))
    ELSE IF IsSpace(Head(s))
         THEN splitFrom(Tail(s), <<>>, IF cur = <<>> THEN acc ELSE Append(acc, cur))
         ELSE splitFrom(Tail(s), Append(cur, Head(s)), acc)

split(s) == splitFrom(s, <<>>, <<>>)

\* truthiness of a Python / JavaScript string
Truthy(s) == s # <<>>

Digit(d) == <<"0", "1", "2", "3", "4", "5", "6", "7", "8", "9">>[d + 1]

\* Python str(n) of a non-negative integer
RECURSIVE str(_)
str(n) == IF n < 10 THEN <<Digit(n)>> ELSE str(n \div 10) \o <<Digit(n % 10)>>

\* texts a caller passes to save_transcription
Texts == { <<>>, <<" ">>, <<"a">>, <<"a", " ", "b">>, <<" ", "b", " ">> }

Languages == { "web-speech-api", "en-US" }

----------------------------------------------------------------------------
(* The ledger: transcriber.py lines 47-87 *)

EmptyMap == [k \in {} |-> 0]

\* a dict rebuilt with only the new entry
Put_Fresh(m, k, v) == [x \in {k} |-> v]

\* m[k] = v on a dict
Put(m, k, v) == [x \in (DOMAIN m) \cup {k} |-> IF x = k THEN v ELSE m[x]]

\* a load whose default for a missing file is not the empty state
load_transcription_counter_BadDefault(f) ==
    IF f # <<>>
    THEN [counter |-> f[1].counter, transcriptions |-> f[1].transcriptions]
    ELSE [counter |-> 1, transcriptions |-> EmptyMap]

\* load_transcription_counter: (counter, transcriptions) of the file, (0, {}) without one
load_transcription_counter(f) ==
    IF f # <<>>
    THEN [counter |-> f[1].counter, transcriptions |-> f[1].transcriptions]
    ELSE [counter |-> 0, transcriptions |-> EmptyMap]

\* an entry whose word_count is the length of the text
new_transcription_CharCount(text, lang, now) ==
    [ timestamp  |-> now,
      transcript |-> text,
      word_count |-> Len(text),
      language   |-> lang ]

\* the entry save_transcription builds (lines 66-72)
new_transcription(text, lang, now) ==
    [ timestamp  |-> now,
      transcript |-> text,
      word_count |-> Len(split(text)),
      language   |-> lang ]

\* a counter that is not incremented
NextCounter_NoIncrement(loaded) == loaded.counter

\* a counter derived from the number of stored records
NextCounter_FromSize(loaded) == Cardinality(DOMAIN loaded.transcriptions) + 1

\* the counter save_transcription assigns from what it loaded (line 63)
NextCounter(loaded) == loaded.counter + 1

\* a document that holds the new entry only
WrittenDoc_Restart(loaded, text, lang, now) ==
    [ counter        |-> NextCounter(loaded),
      transcriptions |-> Put(EmptyMap, str(NextCounter(loaded)),
                             new_transcription(text, lang, now)),
      last_updated   |-> now ]

\* the document save_transcription writes from what it loaded (lines 63-85)
WrittenDoc(loaded, text, lang, now) ==
    [ counter        |-> NextCounter(loaded),
      transcriptions |-> Put(loaded.transcriptions, str(NextCounter(loaded)),
                             new_transcription(text, lang, now)),
      last_updated   |-> now ]

\* save_transcription as one uninterrupted call: the file it leaves and the id it returns
save_transcription(f, text, lang, now) ==
    LET loaded == load_transcription_counter(f)
    IN  [ file |-> <<WrittenDoc(loaded, text, lang, now)>>,
          id   |-> NextCounter(loaded) ]

NoRet == [op |-> "none"]

\* no report, export or layout call has been made
NoCall == [pc |-> "idle", calls |-> 0, requests |-> 0]

\* st.session_state as main() initialises it (lines 774-782); None is <<>>
FreshSession ==
    [ current_transcript    |-> <<>>,
      medical_report        |-> <<>>,
      ai_assessment         |-> <<>>,
      last_transcription_id |-> <<>> ]

\* the speech component as its script leaves it when the iframe loads (lines 272-324, 388-392)
JsLoaded ==
    /\ recState = "idle"
    /\ finalTranscript = <<>>
    /\ isRecognizing = FALSE
    /\ startDisabled = ~supported
    /\ stopDisabled = TRUE
    /\ saveDisabled = TRUE
    /\ status = IF supported THEN "ready" ELSE "unsupported"
    /\ interimDisplay = <<>>
    /\ finalDisplay = <<>>
    /\ displayShown = FALSE
    /\ timers = 0
    /\ timerLive = FALSE
    /\ resetPending = 0
    /\ emitted = <<>>
    /\ inbox = <<>>

Init ==
    /\ file = <<>>
    /\ dirExists = FALSE
    /\ clock = 0
    /\ ret = NoRet
    /\ ids = <<>>
    /\ wpc = [w \in {1, 2} |-> "idle"]
    /\ wlocal = [w \in {1, 2} |-> load_transcription_counter(<<>>)]
    /\ wtext = [w \in {1, 2} |-> <<>>]
    /\ wret = [w \in {1, 2} |-> 0]
    /\ supported \in BOOLEAN
    /\ scriptsRun \in BOOLEAN
    /\ JsLoaded
    /\ queryParams = EmptyMap
    /\ session_state = FreshSession
    /\ call = NoCall

\* a second passes
Tick ==
    /\ clock < MaxClock
    /\ clock' = clock + 1
    /\ UNCHANGED <<file, dirExists, ret, ids>>
    /\ UNCHANGED <<writerVars, appVars, toolVars>>

\* a caller runs load_transcription_counter()
Load ==
    /\ ret' = [op |-> "load", value |-> load_transcription_counter(file)]
    /\ UNCHANGED <<file, dirExists, clock, ids>>
    /\ UNCHANGED <<writerVars, appVars, toolVars>>

\* a caller runs save_transcription(text, lang) to completion
Save ==
    \E text \in Texts, lang \in Languages :
        LET r == save_transcription(file, text, lang, clock)
        IN  /\ load_transcription_counter(file).counter < MaxSaves
            /\ dirExists' = TRUE
            /\ file' = r.file
            /\ ret' = [op |-> "save", id |-> <<r.id>>, text |-> text]
            /\ ids' = Append(ids, r.id)
            /\ UNCHANGED clock
            /\ UNCHANGED <<writerVars, appVars, toolVars>>

\* the ledger specifications leave the page alone: one browser is enough
InitLedger == Init /\ supported /\ scriptsRun

NextLedger == Tick \/ Load \/ Save

\* the ledger used through its two functions by one caller at a time
SpecLedger == InitLedger /\ [][NextLedger]_vars

\* someone edits the document by hand: one record is deleted, the counter is left alone
Remove ==
    /\ file # <<>>
    /\ \E k \in DOMAIN file[1].transcriptions :
           file' = <<[file[1] EXCEPT !.transcriptions =
                        [x \in (DOMAIN file[1].transcriptions) \ {k} |->
                            file[1].transcriptions[x]]]>>
    /\ ret' = [op |-> "remove"]
    /\ UNCHANGED <<dirExists, clock, ids>>
    /\ UNCHANGED <<writerVars, appVars, toolVars>>

NextRemoval == Tick \/ Load \/ Save \/ Remove

\* the ledger with records deleted from the document between calls
SpecRemoval == InitLedger /\ [][NextRemoval]_vars

----------------------------------------------------------------------------
(* patch_duration.  No function of the source writes duration_seconds; the  *)
(* scripts that read the ledger expect it on a record                       *)
(* (generate_report_for_transcription_40.py lines 36, 63, 87).  The         *)
(* operation is taken from its description: it re-reads the document,       *)
(* updates one field on one record and rewrites the whole document.         *)

\* the durations a caller passes
Durations == {0, 2}

\* the document patch_duration leaves: the one loaded, with duration_seconds
\* of record id set to d; the document as it is when there is no such record
patch_duration(f, id, d) ==
    LET loaded == load_transcription_counter(f)
        key == str(id)
    IN  IF f = <<>> \/ key \notin DOMAIN loaded.transcriptions
        THEN f
        ELSE << [ f[1] EXCEPT
                    !.counter = loaded.counter,
                    !.transcriptions =
                        Put(loaded.transcriptions, key,
                            Put(loaded.transcriptions[key], "duration_seconds", d)) ] >>

\* a caller runs patch_duration(id, d) to completion
Patch ==
    /\ file # <<>>
    /\ \E id \in 1 .. file[1].counter, d \in Durations :
          /\ file' = patch_duration(file, id, d)
          /\ ret' = [op |-> "patch", id |-> <<id>>, duration |-> d]
    /\ UNCHANGED <<dirExists, clock, ids>>
    /\ UNCHANGED <<writerVars, appVars, toolVars>>

\* the transcripts of the sessions whose duration is patched in
SessionTexts == { <<"a">>, <<"a", " ", "b">> }

\* a session's transcript is stored the way main() stores it (line 855):
\* save_transcription(text, "web-speech-api")
SaveSession ==
    \E text \in SessionTexts :
        LET r == save_transcription(file, text, "web-speech-api", clock)
        IN  /\ load_transcription_counter(file).counter < MaxSaves
            /\ dirExists' = TRUE
            /\ file' = r.file
            /\ ret' = [op |-> "save", id |-> <<r.id>>, text |-> text]
            /\ ids' = Append(ids, r.id)
            /\ UNCHANGED clock
            /\ UNCHANGED <<writerVars, appVars, toolVars>>

NextPatch == Tick \/ SaveSession \/ Patch

\* the ledger with the durations of stored sessions patched in
SpecPatch == InitLedger /\ [][NextPatch]_vars

----------------------------------------------------------------------------
(* Two writers inside save_transcription at the same time.  The call reads   *)
(* the file (line 60) and later rewrites it (lines 84-85); nothing locks the *)
(* file in between.                                                          *)

Writers == {1, 2}

\* a writer that reads the file again when it writes
WriterBase_Reread(w) == load_transcription_counter(file)

\* what writer w increments and extends when it writes: what it loaded at line 60
WriterBase(w) == wlocal[w]

\* lines 57-60: makedirs, then load
W_Load(w) ==
    /\ wpc[w] = "idle"
    /\ load_transcription_counter(file).counter < MaxSaves
    /\ \E text \in {<<"a">>, <<"b">>} :
           wtext' = [wtext EXCEPT ![w] = text]
    /\ wlocal' = [wlocal EXCEPT ![w] = load_transcription_counter(file)]
    /\ wpc' = [wpc EXCEPT ![w] = "loaded"]
    /\ dirExists' = TRUE
    /\ UNCHANGED <<file, clock, ret, ids, wret, appVars, toolVars>>

\* lines 63-87: increment, add the entry, write the document, return the counter
W_Write(w) ==
    /\ wpc[w] = "loaded"
    /\ file' = <<WrittenDoc(WriterBase(w), wtext[w], "web-speech-api", clock)>>
    /\ wret' = [wret EXCEPT ![w] = NextCounter(WriterBase(w))]
    /\ wpc' = [wpc EXCEPT ![w] = "done"]
    /\ UNCHANGED <<dirExists, clock, ret, ids, wlocal, wtext, appVars, toolVars>>

\* the caller takes the id; the writer is free for its next call
W_Return(w) ==
    /\ wpc[w] = "done"
    /\ wpc' = [wpc EXCEPT ![w] = "idle"]
    /\ UNCHANGED <<file, dirExists, clock, ret, ids, wlocal, wtext, wret, appVars, toolVars>>

NextRace == \E w \in Writers : W_Load(w) \/ W_Write(w) \/ W_Return(w)

SpecRace == InitLedger /\ [][NextRace]_vars

----------------------------------------------------------------------------
(* The Web Speech component: the script of get_web_speech_component,        *)
(* transcriber.py lines 306-456.  A button's onclick runs only while the    *)
(* button is not disabled.                                                  *)

\* the most finals the recognizer delivers between two starts
MaxFinals == 2
\* the most resetSpeechTranscriber timeouts scheduled at once
MaxResets == 1

ListeningMsg == <<"Listening for speech...">>
MoreMsg == <<"Listening for more speech...">>

Final(t) == [transcript |-> t, isFinal |-> TRUE]
Interim(t) == [transcript |-> t, isFinal |-> FALSE]

\* event.results from event.resultIndex on, as the recognizer may deliver them
ResultEvents ==
    { << Final(<<"a">>) >>, << Final(<<"b">>) >>, << Final(<<>>) >>,
      << Interim(<<"a">>) >>,
      << Interim(<<"a">>), Interim(<<"b">>) >>,
      << Final(<<"b">>), Interim(<<"a">>) >>,
      << Final(<<"a">>), Final(<<"b">>) >> }

\* the finals among an event's results, in order
RECURSIVE FinalsOf(_)
FinalsOf(results) ==
    IF results = <<>> THEN <<>>
    ELSE IF Head(results).isFinal
         THEN <<Head(results).transcript>> \o FinalsOf(Tail(results))
         ELSE FinalsOf(Tail(results))

\* line 341: finalTranscript += transcript + ' '
OnFinal(acc, t) == acc \o t \o <<" ">>

\* the loop of onresult (lines 337-348) over the remaining results; st holds
\* finalTranscript, the two display elements and the local interimTranscript
RECURSIVE OnResultLoop(_, _)
OnResultLoop(results, st) ==
    IF results = <<>> THEN st
    ELSE LET r == Head(results)
         IN  IF r.isFinal
             THEN OnResultLoop(Tail(results),
                     [ st EXCEPT !.final = OnFinal(st.final, r.transcript),
                                 !.finalDisplay = OnFinal(st.final, r.transcript),
                                 !.interimDisplay = MoreMsg ])
             ELSE OnResultLoop(Tail(results),
                     [ st EXCEPT !.interim = st.interim \o r.transcript,
                                 !.interimDisplay = st.interim \o r.transcript ])

\* a posted message reaches the parent window within milliseconds: the user
\* does not get a click in before it is delivered
UserCanAct == inbox = <<>>

\* a handler that leaves the timer running
TimersAfterClear_Forgotten == timers

\* clearInterval(speechTimerInterval): stops the timer the handle refers to, if it runs
TimersAfterClear == IF timerLive THEN timers - 1 ELSE timers

\* speechRecognition.onstart (lines 326-332)
OnStart ==
    /\ recState = "starting"
    /\ recState' = "running"
    /\ isRecognizing' = TRUE
    /\ status' = "listening"
    /\ displayShown' = TRUE
    /\ interimDisplay' = ListeningMsg
    /\ UNCHANGED <<finalTranscript, startDisabled, stopDisabled, saveDisabled,
                   finalDisplay, timers, timerLive, resetPending, emitted, inbox>>
    /\ UNCHANGED <<ledgerVars, writerVars, pageVars, toolVars>>

\* speechRecognition.onresult (lines 334-349); results still arrive after
\* stop(), but only from a recognizer that has started (isRecognizing is TRUE
\* exactly from its start event to its end event)
OnResult ==
    /\ recState \in {"running", "ending"}
    /\ isRecognizing
    /\ \E ev \in ResultEvents :
          /\ Len(emitted) + Len(FinalsOf(ev)) <= MaxFinals
          /\ LET st == OnResultLoop(ev, [ final |-> finalTranscript,
                                          finalDisplay |-> finalDisplay,
                                          interimDisplay |-> interimDisplay,
                                          interim |-> <<>> ])
             IN  /\ finalTranscript' = st.final
                 /\ finalDisplay' = st.finalDisplay
                 /\ interimDisplay' = st.interimDisplay
          /\ emitted' = emitted \o FinalsOf(ev)
    /\ UNCHANGED <<recState, isRecognizing, startDisabled, stopDisabled, saveDisabled,
                   status, displayShown, timers, timerLive, resetPending, inbox>>
    /\ UNCHANGED <<ledgerVars, writerVars, pageVars, toolVars>>

\* an error handler that also throws the transcript away
OnError_Resets ==
    /\ recState \in {"starting", "running"}
    /\ status' = "error"
    /\ recState' \in {recState, "ending"}
    /\ finalTranscript' = <<>>
    /\ saveDisabled' = TRUE
    /\ UNCHANGED <<isRecognizing, startDisabled, stopDisabled,
                   interimDisplay, finalDisplay, displayShown, timers,
                   timerLive, resetPending, emitted, inbox>>
    /\ UNCHANGED <<ledgerVars, writerVars, pageVars, toolVars>>

\* speechRecognition.onerror (lines 351-369); the recognizer may go on or end
OnError ==
    /\ recState \in {"starting", "running"}
    /\ status' = "error"
    /\ recState' \in {recState, "ending"}
    /\ UNCHANGED <<finalTranscript, isRecognizing, startDisabled, stopDisabled,
                   saveDisabled, interimDisplay, finalDisplay, displayShown, timers,
                   timerLive, resetPending, emitted, inbox>>
    /\ UNCHANGED <<ledgerVars, writerVars, pageVars, toolVars>>

\* an end handler that leaves the Start and Stop buttons as they are
OnEnd_LeavesButtons ==
    /\ recState \in {"running", "ending"}
    /\ recState' = "idle"
    /\ isRecognizing' = FALSE
    /\ IF Truthy(strip(finalTranscript))
       THEN saveDisabled' = FALSE /\ status' = "completed"
       ELSE saveDisabled' = saveDisabled /\ status' = "nospeech"
    /\ timers' = TimersAfterClear
    /\ timerLive' = FALSE
    /\ UNCHANGED <<finalTranscript, startDisabled, stopDisabled, interimDisplay,
                   finalDisplay, displayShown, resetPending, emitted, inbox>>
    /\ UNCHANGED <<ledgerVars, writerVars, pageVars, toolVars>>

\* speechRecognition.onend (lines 371-386): after stop(), after an error, or when
\* the browser ends the recognition by itself
OnEnd ==
    /\ recState \in {"running", "ending"}
    /\ recState' = "idle"
    /\ isRecognizing' = FALSE
    /\ startDisabled' = FALSE
    /\ stopDisabled' = TRUE
    /\ IF Truthy(strip(finalTranscript))
       THEN saveDisabled' = FALSE /\ status' = "completed"
       ELSE saveDisabled' = saveDisabled /\ status' = "nospeech"
    /\ timers' = TimersAfterClear
    /\ timerLive' = FALSE
    /\ UNCHANGED <<finalTranscript, interimDisplay, finalDisplay, displayShown,
                   resetPending, emitted, inbox>>
    /\ UNCHANGED <<ledgerVars, writerVars, pageVars, toolVars>>

\* line 395: if (speechRecognition && !isRecognizing)
StartGuard == supported /\ ~isRecognizing

\* the user clicks Start: startSpeechRecognition (lines 394-409).
\* speechRecognition.start() throws InvalidStateError when the recognizer was
\* already started; the assignments before it stay.
ClickStart ==
    /\ UserCanAct
    /\ ~startDisabled
    /\ StartGuard
    /\ finalTranscript' = <<>>
    /\ finalDisplay' = <<>>
    /\ interimDisplay' = <<>>
    /\ startDisabled' = TRUE
    /\ stopDisabled' = FALSE
    /\ saveDisabled' = TRUE
    /\ timers' = timers + 1
    /\ timerLive' = TRUE
    /\ recState' = IF recState = "idle" THEN "starting" ELSE recState
    /\ emitted' = IF recState = "idle" THEN <<>> ELSE emitted
    /\ UNCHANGED <<isRecognizing, status, displayShown, resetPending, inbox>>
    /\ UNCHANGED <<ledgerVars, writerVars, pageVars, toolVars>>

\* the user clicks Stop: stopSpeechRecognition (lines 411-415)
ClickStop ==
    /\ UserCanAct
    /\ ~stopDisabled
    /\ supported /\ isRecognizing
    /\ recState' = IF recState = "running" THEN "ending" ELSE recState
    /\ UNCHANGED <<finalTranscript, isRecognizing, startDisabled, stopDisabled,
                   saveDisabled, status, interimDisplay, finalDisplay, displayShown,
                   timers, timerLive, resetPending, emitted, inbox>>
    /\ UNCHANGED <<ledgerVars, writerVars, pageVars, toolVars>>

\* line 426: if (finalTranscript.trim())
SaveGuard == Truthy(strip(finalTranscript))

\* the user clicks Save: saveTranscript (lines 425-440)
ClickSave ==
    /\ UserCanAct
    /\ ~saveDisabled
    /\ SaveGuard
    /\ resetPending < MaxResets
    /\ inbox' = Append(inbox, strip(finalTranscript))
    /\ status' = "sent"
    /\ saveDisabled' = TRUE
    /\ resetPending' = resetPending + 1
    /\ UNCHANGED <<recState, finalTranscript, isRecognizing, startDisabled,
                   stopDisabled, interimDisplay, finalDisplay, displayShown, timers,
                   timerLive, emitted>>
    /\ UNCHANGED <<ledgerVars, writerVars, pageVars, toolVars>>

\* the timeout of line 438 fires: resetSpeechTranscriber (lines 442-455).  It
\* fires 2 s after the save; the posted message is delivered before that.
ResetFires ==
    /\ resetPending > 0
    /\ inbox = <<>>
    /\ resetPending' = resetPending - 1
    /\ finalTranscript' = <<>>
    /\ startDisabled' = FALSE
    /\ stopDisabled' = TRUE
    /\ saveDisabled' = TRUE
    /\ status' = "ready"
    /\ displayShown' = FALSE
    /\ timers' = TimersAfterClear
    /\ timerLive' = FALSE
    /\ UNCHANGED <<recState, isRecognizing, interimDisplay, finalDisplay, emitted, inbox>>
    /\ UNCHANGED <<ledgerVars, writerVars, pageVars, toolVars>>

----------------------------------------------------------------------------
(* The page: main(), transcriber.py lines 774-865, and the scripts it emits  *)
(* (lines 809-840).  A missing query parameter (None) and an empty one are   *)
(* both <<>>: main treats them alike (lines 844, 852).                       *)

\* urllib.parse.unquote on the escapes the query strings below use: %20 is a space
RECURSIVE unquote(_)
unquote(s) ==
    IF s = <<>> THEN <<>>
    ELSE IF Len(s) >= 3 /\ SubSeq(s, 1, 3) = <<"%", "2", "0">>
         THEN <<" ">> \o unquote(SubSeq(s, 4, Len(s)))
         ELSE <<Head(s)>> \o unquote(Tail(s))

\* the query strings a user opens the page with
QueryStrings ==
    { EmptyMap,
      [k \in {"transcript"} |-> <<"a">>],
      [k \in {"transcript"} |-> <<" ">>],
      [k \in {"web_speech_transcript"} |-> <<"%", "2", "0", "b">>],
      [k \in {"transcript", "web_speech_transcript"} |->
            IF k = "transcript" THEN <<>> ELSE <<"%", "2", "0">>] }

\* lines 843-849: the transcript main() finds in the query parameters
transcript_from_js(qp) ==
    LET direct == IF "transcript" \in DOMAIN qp THEN qp["transcript"] ELSE <<>>
    IN  IF Truthy(direct) THEN direct
        ELSE IF "web_speech_transcript" \in DOMAIN qp
             THEN unquote(qp["web_speech_transcript"])
             ELSE <<>>

\* a main() that stores whatever non-empty parameter it finds
AcceptTranscript_NoStrip(t) == Truthy(t)

\* line 852: if transcript_from_js and transcript_from_js.strip()
AcceptTranscript(t) == Truthy(t) /\ Truthy(strip(t))

\* a run of main() that stores the transcript and leaves the query parameters
MainRun_KeepsParams(ss, qp) ==
    LET t == transcript_from_js(qp)
        r == save_transcription(file, strip(t), "web-speech-api", clock)
    IN  IF AcceptTranscript(t)
        THEN /\ file' = r.file
             /\ dirExists' = TRUE
             /\ ids' = Append(ids, r.id)
             /\ session_state' = [ ss EXCEPT !.current_transcript = strip(t),
                                             !.last_transcription_id = <<r.id>> ]
             /\ queryParams' = qp
        ELSE /\ session_state' = ss
             /\ queryParams' = qp
             /\ UNCHANGED <<file, dirExists, ids>>

\* one run of main() with session state ss and query parameters qp: lines
\* 774-782 keep ss, lines 842-863 store a received transcript and clear the
\* query parameters
MainRun(ss, qp) ==
    LET t == transcript_from_js(qp)
        r == save_transcription(file, strip(t), "web-speech-api", clock)
    IN  IF AcceptTranscript(t)
        THEN /\ file' = r.file
             /\ dirExists' = TRUE
             /\ ids' = Append(ids, r.id)
             /\ session_state' = [ ss EXCEPT !.current_transcript = strip(t),
                                             !.last_transcription_id = <<r.id>> ]
             /\ queryParams' = EmptyMap
        ELSE /\ session_state' = ss
             /\ queryParams' = qp
             /\ UNCHANGED <<file, dirExists, ids>>

\* the browser loads the page: the component's iframe is created anew, its
\* recognizer, timers and undelivered messages are gone
JsReload ==
    /\ recState' = "idle"
    /\ finalTranscript' = <<>>
    /\ isRecognizing' = FALSE
    /\ startDisabled' = ~supported
    /\ stopDisabled' = TRUE
    /\ saveDisabled' = TRUE
    /\ status' = IF supported THEN "ready" ELSE "unsupported"
    /\ interimDisplay' = <<>>
    /\ finalDisplay' = <<>>
    /\ displayShown' = FALSE
    /\ timers' = 0
    /\ timerLive' = FALSE
    /\ resetPending' = 0
    /\ emitted' = <<>>
    /\ inbox' = <<>>

\* the user opens the page with a query string: a new Streamlit session runs main()
OpenUrl ==
    /\ UserCanAct
    /\ load_transcription_counter(file).counter < MaxAppSaves
    /\ \E qs \in QueryStrings : MainRun(FreshSession, qs)
    /\ JsReload
    /\ UNCHANGED <<clock, ret, supported, scriptsRun>>
    /\ UNCHANGED <<writerVars, toolVars>>

\* a widget interaction makes Streamlit run main() again in the same session
Rerun ==
    /\ UserCanAct
    /\ MainRun(session_state, queryParams)
    /\ UNCHANGED <<clock, ret, supported, scriptsRun>>
    /\ UNCHANGED <<writerVars, jsVars, toolVars>>

\* the parent window receives the message posted by saveTranscript.  With the
\* listener of lines 811-820 running, it stores the transcript in
\* sessionStorage and reloads the page, which starts a new session and runs
\* main(); the load listener (lines 823-838) then removes the stored
\* transcript again, so sessionStorage ends as it began and main(), which
\* reads st.query_params only, never sees it.  Without the listener the
\* message has no receiver.
ParentMessage ==
    /\ inbox # <<>>
    /\ IF scriptsRun
       THEN /\ MainRun(FreshSession, queryParams)
            /\ JsReload
       ELSE /\ inbox' = Tail(inbox)
            /\ UNCHANGED <<recState, finalTranscript, isRecognizing, startDisabled,
                           stopDisabled, saveDisabled, status, interimDisplay,
                           finalDisplay, displayShown, timers, timerLive,
                           resetPending, emitted>>
            /\ UNCHANGED <<file, dirExists, ids, queryParams, session_state>>
    /\ UNCHANGED <<clock, ret, supported, scriptsRun>>
    /\ UNCHANGED <<writerVars, toolVars>>

Next ==
    \/ ClickStart \/ OnStart \/ OnResult \/ OnError \/ ClickStop \/ OnEnd
    \/ ClickSave \/ ResetFires \/ ParentMessage \/ OpenUrl \/ Rerun

\* the application: the speech component, the page and main() with the ledger
Spec == Init /\ [][Next]_vars

NextComponent ==
    \/ ClickStart \/ OnStart \/ OnResult \/ OnError \/ ClickStop \/ OnEnd
    \/ ClickSave \/ ResetFires \/ ParentMessage

\* the speech component in a page that stays open, with the browser's
\* guarantee that a recognizer that is stopping fires its end event
SpecStop ==
    /\ Init
    /\ [][NextComponent]_vars
    /\ WF_vars(OnEnd /\ recState = "ending")

----------------------------------------------------------------------------
(* The report requestor: MedicalReportGenerator.analyze_transcript and       *)
(* generate_ai_assessment, medical_report_generator.py lines 37-188.  Each   *)
(* builds a prompt around the transcript, sends it with                       *)
(* self.model.generate_content and returns response.text; both statements    *)
(* are inside one try whose except Exception returns a message.              *)

\* the most calls of the requestor
MaxCalls == 2

ReportFns == {"analyze_transcript", "generate_ai_assessment"}

\* the texts the model answers with
ModelTexts ==
    { <<>>, <<"r">>, <<"#", "#", " ", "r", "\n", "-", " ", "s">>,
      <<"E", "r", "r", "o", "r">> }

\* str(e) of what generate_content or response.text raises
ErrorTexts == { <<"q", "u", "o", "t", "a">>, <<"4", "0", "3">>, <<>> }

\* what happens to the request: the model answers with text, generate_content
\* raises (line 103 / 185), or the response has no text and response.text
\* raises (line 104 / 186)
ModelOutcomes ==
    [kind : {"text"}, text : ModelTexts]
        \cup [kind : {"raises", "notext"}, text : ErrorTexts]

\* the prompt of lines 47-100 / 118-182: fixed instructions around the transcript
PromptOf(fn, transcript) == <<fn>> \o transcript \o <<"INSTRUCTIONS">>

\* the literal the except clause puts before str(e) (lines 106, 188)
ErrorPrefix(fn) ==
    IF fn = "analyze_transcript"
    THEN <<"Error generating medical report: ">>
    ELSE <<"Error generating AI assessment: ">>

\* an except clause that lets the exception through
OnException_Propagates(fn, e) == [result |-> <<>>, raised |-> TRUE]

\* except Exception as e: return f"Error generating ...: {str(e)}"
OnException(fn, e) == [result |-> ErrorPrefix(fn) \o e, raised |-> FALSE]

\* a caller calls fn(transcript): the prompt is built and generate_content sends it
CallReport ==
    /\ call.pc \in {"idle", "returned"}
    /\ call.calls < MaxCalls
    /\ \E fn \in ReportFns, t \in SessionTexts \cup {<<>>} :
          call' = [ pc |-> "waiting", fn |-> fn, prompt |-> PromptOf(fn, t),
                    calls |-> call.calls + 1, requests |-> call.requests + 1 ]
    /\ UNCHANGED <<ledgerVars, writerVars, appVars>>

\* the request ends and the call returns
ModelResponds ==
    /\ call.pc = "waiting"
    /\ \E o \in ModelOutcomes :
          LET r == IF o.kind = "text"
                   THEN [result |-> o.text, raised |-> FALSE]
                   ELSE OnException(call.fn, o.text)
          IN  call' = [ pc |-> "returned", fn |-> call.fn, prompt |-> call.prompt,
                        calls |-> call.calls, requests |-> call.requests,
                        outcome |-> o, result |-> r.result, raised |-> r.raised ]
    /\ UNCHANGED <<ledgerVars, writerVars, appVars>>

NextReport == CallReport \/ ModelResponds

\* the report requestor called by one caller
SpecReport == InitLedger /\ [][NextReport]_vars

----------------------------------------------------------------------------
(* The text export: MedicalReportGenerator.save_report,                      *)
(* medical_report_generator.py lines 395-417.  The file is opened with       *)
(* open(output_path, 'w', encoding='utf-8'): text mode with the default      *)
(* newline handling, which writes every '\n' as os.linesep.                  *)

\* the reports a caller exports
Reports == ModelTexts \cup { <<"a", "\n", "\n", "b", "\n">> }

\* os.linesep of the platform the program runs on
LineSeps == { <<"\n">>, <<"\r", "\n">> }

\* the output_path argument; <<>> is None
PathArgs == { <<>>, <<"out.txt">> }

\* the files written so far, by path
FilesOf(c) == IF "fs" \in DOMAIN c THEN c.fs ELSE EmptyMap

\* a write that puts a title line before the text
TextWrite_Titled(text, sep) == <<"R", "E", "P", "O", "R", "T">> \o sep \o text

\* what file.write(text) puts into a file opened in text mode
RECURSIVE TextWrite(_, _)
TextWrite(text, sep) ==
    IF text = <<>> THEN <<>>
    ELSE (IF Head(text) = "\n" THEN sep ELSE <<Head(text)>>) \o TextWrite(Tail(text), sep)

\* lines 406-408: the path used when none is given, named after the time
DefaultPath(now) == <<"medical_report_">> \o str(now) \o <<".txt">>

\* save_report(report, output_path) on the files fs: the files it leaves and
\* what it returns (<<>> is None).  open() can fail, which leaves the files
\* alone; write() can fail after open() has truncated the file; both are
\* caught at line 415.
save_report(fs, report, arg, sep, how, now) ==
    LET path == IF arg = <<>> THEN DefaultPath(now) ELSE arg
    IN  [ path     |-> path,
          fs       |-> IF how = "open fails" THEN fs
                       ELSE IF how = "write fails" THEN Put(fs, path, <<>>)
                       ELSE Put(fs, path, TextWrite(report, sep)),
          returned |-> IF how = "ok" THEN <<path>> ELSE <<>> ]

\* a caller runs save_report(report, output_path) to completion
SaveReport ==
    /\ call.pc \in {"idle", "exported"}
    /\ call.calls < MaxCalls
    /\ \E report \in Reports, arg \in PathArgs, sep \in LineSeps,
          how \in {"ok", "open fails", "write fails"} :
          LET r == save_report(FilesOf(call), report, arg, sep, how, clock)
          IN  /\ call.pc = "exported" => sep = call.linesep
              /\ call' = [ pc |-> "exported", op |-> "save_report",
                           calls |-> call.calls + 1, requests |-> call.requests,
                           linesep |-> sep, report |-> report, how |-> how,
                           path |-> r.path, fs |-> r.fs, returned |-> r.returned ]
    /\ UNCHANGED <<ledgerVars, writerVars, appVars>>

----------------------------------------------------------------------------
(* The JSON export: main() of medical_report_generator.py, lines 501-526.    *)
(* json.dump(report_data, f, indent=2, ensure_ascii=False) writes the         *)
(* members one per line; json.load reads them back.                           *)

\* the transcripts main() analyses
JsonTranscripts ==
    { <<>>, <<"a">>, <<"a", "\n", "b">>, <<"\"", "a", "\\">>, <<"\\", "n">> }

\* an encoder that leaves the backslash as it is
JsonEscape_KeepsBackslash(c) ==
    CASE c = "\"" -> <<"\\", "\"">>
      [] c = "\n" -> <<"\\", "n">>
      [] c = "\r" -> <<"\\", "r">>
      [] OTHER    -> <<c>>

\* json's encoding of one character of a string
JsonEscape(c) ==
    CASE c = "\"" -> <<"\\", "\"">>
      [] c = "\\" -> <<"\\", "\\">>
      [] c = "\n" -> <<"\\", "n">>
      [] c = "\r" -> <<"\\", "r">>
      [] OTHER    -> <<c>>

\* json's encoding of a string
RECURSIVE JsonString(_)
JsonString(text) ==
    IF text = <<>> THEN <<>> ELSE JsonEscape(Head(text)) \o JsonString(Tail(text))

\* json.dumps(obj, indent=2) of an object whose values are strings; members
\* is the sequence of its <<key, value>> pairs
RECURSIVE JsonMembers(_)
JsonMembers(members) ==
    IF members = <<>> THEN <<>>
    ELSE <<" ", " ", "\"">> \o Head(members)[1] \o <<"\"", ":", " ", "\"">>
            \o JsonString(Head(members)[2]) \o <<"\"">>
            \o (IF Len(members) > 1 THEN <<",">> ELSE <<>>) \o <<"\n">>
            \o JsonMembers(Tail(members))

json_dumps(members) ==
    IF members = <<>> THEN <<"{", "}">>
    ELSE <<"{", "\n">> \o JsonMembers(members) \o <<"}">>

\* json's decoding of the character after a backslash
JsonUnescape(c) ==
    CASE c = "n" -> "\n"
      [] c = "r" -> "\r"
      [] OTHER   -> c

JsonWhitespace(c) == c \in {" ", "\n", "\r"}

RECURSIVE SkipWhitespace(_)
SkipWhitespace(s) ==
    IF s # <<>> /\ JsonWhitespace(Head(s)) THEN SkipWhitespace(Tail(s)) ELSE s

\* the decoder after an opening quote: the string up to the closing quote and
\* what follows it
RECURSIVE ReadString(_, _)
ReadString(s, acc) ==
    IF s = <<>> THEN [value |-> acc, rest |-> <<>>]
    ELSE IF Head(s) = "\"" THEN [value |-> acc, rest |-> Tail(s)]
    ELSE IF Head(s) = "\\" /\ Len(s) >= 2
         THEN ReadString(Tail(Tail(s)), Append(acc, JsonUnescape(s[2])))
         ELSE ReadString(Tail(s), Append(acc, Head(s)))

\* the decoder inside an object: the members from s on, added to acc
RECURSIVE ReadMembers(_, _)
ReadMembers(s, acc) ==
    LET t == SkipWhitespace(s)
    IN  IF t = <<>> \/ Head(t) # "\"" THEN acc
        ELSE LET k == ReadString(Tail(t), <<>>)
                 afterColon == SkipWhitespace(Tail(SkipWhitespace(k.rest)))
                 v == ReadString(Tail(afterColon), <<>>)
                 u == SkipWhitespace(v.rest)
             IN  ReadMembers(IF u # <<>> /\ Head(u) = "," THEN Tail(u) ELSE u,
                             Put(acc, k.value, v.value))

\* json.load of a file that holds an object with string values
json_load(content) ==
    LET t == SkipWhitespace(content)
    IN  IF t = <<>> THEN EmptyMap ELSE ReadMembers(Tail(t), EmptyMap)

\* str.replace('.txt', '.json') on a path
RECURSIVE ReplaceTxt(_)
ReplaceTxt(path) ==
    IF path = <<>> THEN <<>>
    ELSE <<IF Head(path) = ".txt" THEN ".json" ELSE Head(path)>> \o ReplaceTxt(Tail(path))

\* lines 513-518: report_data
report_data(transcript, report, now) ==
    << << <<"timestamp">>, str(now) >>,
       << <<"original_transcript">>, transcript >>,
       << <<"generated_report">>, report >>,
       << <<"model_used">>, <<"gemini-2.0-flash-exp">> >> >>

\* main() has a non-empty report (line 503): it saves the report as text
\* (line 510), then dumps report_data as JSON next to it (lines 520-526); a
\* failure of the dump is caught and printed
MainExport ==
    /\ call.pc = "idle"
    /\ \E transcript \in JsonTranscripts, report \in Reports \ {<<>>},
          sep \in LineSeps, how \in {"ok", "open fails", "write fails"},
          jhow \in {"ok", "open fails", "write fails"} :
          LET r == save_report(FilesOf(call), report, <<>>, sep, how, clock)
              json_output == IF r.returned # <<>> THEN ReplaceTxt(r.returned[1])
                             ELSE <<"medical_report.json">>
              text == json_dumps(report_data(transcript, report, clock))
              fs2 == IF jhow = "open fails" THEN r.fs
                     ELSE IF jhow = "write fails" THEN Put(r.fs, json_output, <<>>)
                     ELSE Put(r.fs, json_output, TextWrite(text, sep))
          IN  call' = [ pc |-> "exported", op |-> "main",
                        calls |-> call.calls + 1, requests |-> call.requests,
                        linesep |-> sep, report |-> report, how |-> how,
                        path |-> r.path, fs |-> fs2, returned |-> r.returned,
                        transcript |-> transcript, json_output |-> json_output,
                        jhow |-> jhow ]
    /\ UNCHANGED <<ledgerVars, writerVars, appVars>>

NextExport == Tick \/ SaveReport \/ MainExport

\* the exports: save_report called by a caller, and main()'s two files
SpecExport == InitLedger /\ [][NextExport]_vars

----------------------------------------------------------------------------
(* The PDF layout: create_pdf_report, transcriber.py lines 184-254.  The     *)
(* story is the list of flowables handed to doc.build: paragraphs with a     *)
(* style, and spacers.                                                       *)

\* the longest report laid out
MaxReportLen == 4

PdfChars == {"#", "-", "a", " ", "\n"}

\* the report texts create_pdf_report is given
PdfReports == UNION { [1 .. n -> PdfChars] : n \in 0 .. MaxReportLen }

Para(text, style) == [kind |-> "Paragraph", text |-> text, style |-> style]

Spacer(height) == [kind |-> "Spacer", text |-> <<>>, style |-> height]

\* str.split('\n'): the pieces between line breaks, empty ones included
RECURSIVE SplitLinesFrom(_, _, _)
SplitLinesFrom(text, cur, acc) ==
    IF text = <<>> THEN Append(acc, cur)
    ELSE IF Head(text) = "\n"
         THEN SplitLinesFrom(Tail(text), <<>>, Append(acc, cur))
         ELSE SplitLinesFrom(Tail(text), Append(cur, Head(text)), acc)

SplitLines(text) == SplitLinesFrom(text, <<>>, <<>>)

\* str.startswith
StartsWith(text, prefix) ==
    Len(text) >= Len(prefix) /\ SubSeq(text, 1, Len(prefix)) = prefix

\* str.replace('##', ''): every occurrence, found from the left, is removed
RECURSIVE RemoveMarks(_)
RemoveMarks(text) ==
    IF text = <<>> THEN <<>>
    ELSE IF StartsWith(text, <<"#", "#">>)
         THEN RemoveMarks(SubSeq(text, 3, Len(text)))
         ELSE <<Head(text)>> \o RemoveMarks(Tail(text))

\* lines 221-232: the flowables of the report's lines
RECURSIVE LineFlowables(_)
LineFlowables(lines) ==
    IF lines = <<>> THEN <<>>
    ELSE LET para == Head(lines)
         IN  (IF Truthy(strip(para))
              THEN (IF StartsWith(para, <<"#", "#">>)
                    THEN << Para(strip(RemoveMarks(para)), "Heading3") >>
                    ELSE IF StartsWith(para, <<"-">>)
                         THEN << Para(para, "Normal") >>
                         ELSE << Para(para, "Normal") >>)
                   \o << Spacer(6) >>
              ELSE <<>>)
             \o LineFlowables(Tail(lines))

\* lines 214-232: the report section; nothing for an empty report
ReportSection(report_text) ==
    IF Truthy(report_text)
    THEN << Para(<<"MEDICAL REPORT">>, "Heading2"), Spacer(12) >>
            \o LineFlowables(SplitLines(report_text))
    ELSE <<>>

\* lines 236-245: the transcript section
RECURSIVE TranscriptFlowables(_)
TranscriptFlowables(lines) ==
    IF lines = <<>> THEN <<>>
    ELSE (IF Truthy(strip(Head(lines)))
          THEN << Para(Head(lines), "Normal"), Spacer(6) >>
          ELSE <<>>)
         \o TranscriptFlowables(Tail(lines))

\* lines 203-212: the title and the date
TitleSection(transcription_id, now) ==
    << Para(<<"Medical Report">> \o
              (IF transcription_id # <<>>
               THEN <<" - Transcription #">> \o str(transcription_id[1]) ELSE <<>>),
            "CustomTitle"),
       Spacer(20),
       Para(<<"Generated on: ">> \o str(now), "Normal"),
       Spacer(20) >>

\* the story create_pdf_report builds (lines 201-245)
PdfStory(report_text, transcript_text, transcription_id, now) ==
    TitleSection(transcription_id, now)
        \o ReportSection(report_text)
        \o << Spacer(30), Para(<<"ORIGINAL TRANSCRIPT">>, "Heading2"), Spacer(12) >>
        \o (IF Truthy(transcript_text)
            THEN TranscriptFlowables(SplitLines(transcript_text)) ELSE <<>>)

\* main() calls create_pdf_report(report, transcript, id) (lines 889-893)
CreatePdf ==
    /\ call.pc = "idle"
    /\ \E report \in PdfReports, transcript \in SessionTexts, id \in {<<>>, <<1>>} :
          call' = [ pc |-> "laid out", op |-> "create_pdf_report",
                    calls |-> 1, requests |-> 0,
                    report |-> report,
                    section |-> ReportSection(report),
                    story |-> PdfStory(report, transcript, id, clock) ]
    /\ UNCHANGED <<ledgerVars, writerVars, appVars>>

NextPdf == CreatePdf

\* create_pdf_report called with one report after another
SpecPdf == InitLedger /\ [][NextPdf]_vars

----------------------------------------------------------------------------
(* Credentials and the calls that need them: get_credentials and the three   *)
(* functions of transcriber.py that begin with it (lines 28-45, 89-182), and *)
(* MedicalReportGenerator.__init__ (medical_report_generator.py lines 9-35). *)
(* None is <<>>; a returned string s is <<s>>.                               *)

\* how loading the credentials ends: the secrets or the key file yield them,
\* or reading them raises
CredentialLoads == {"loaded", "raises"}

\* how vertexai.init / speech.SpeechClient ends
InitOutcomes == {"ok", "raises"}

\* a get_credentials that hands back an object whatever happened
get_credentials_Always(how) == <<"credentials">>

\* get_credentials (lines 28-45): the credentials, None when loading them raised
get_credentials(how) == IF how = "loaded" THEN <<"credentials">> ELSE <<>>

\* MedicalReportGenerator(project_id, credentials_path, credentials), lines
\* 18-35: what the constructor raised (<<>>: nothing) and how many times it
\* reached vertexai.init
MedicalReportGenerator(credentials, credentials_path, path_load, init) ==
    IF credentials # <<>> \/ (credentials_path # <<>> /\ path_load = "loaded")
    THEN [ raised |-> IF init = "raises" THEN <<"init">> ELSE <<>>, inits |-> 1 ]
    ELSE IF credentials_path # <<>>
         THEN [ raised |-> <<"load">>, inits |-> 0 ]
         ELSE [ raised |-> <<"ValueError">>, inits |-> 0 ]

GenerateFns == {"generate_medical_report", "generate_ai_assessment"}

\* the method of the generator each function calls (lines 156, 177)
MethodOf(fn) ==
    IF fn = "generate_medical_report" THEN "analyze_transcript"
    ELSE "generate_ai_assessment"

\* analyze_transcript / generate_ai_assessment of the generator: the text of
\* the response, or the message of its except clause
Requested(method, o) ==
    IF o.kind = "text" THEN o.text ELSE OnException(method, o.text).result

\* generate_medical_report(transcript) / generate_ai_assessment(transcript),
\* lines 142-182: what is returned, how many external initialisations and
\* model requests were made, and the prompt that was sent
generate(fn, transcript, how, init, o) ==
    LET credentials == get_credentials(how)
        g == MedicalReportGenerator(credentials, <<>>, "loaded", init)
    IN  IF credentials = <<>>
        THEN [ result |-> <<>>, inits |-> 0, requests |-> 0, prompt |-> <<>> ]
        ELSE IF g.raised # <<>>
             THEN [ result |-> <<>>, inits |-> g.inits, requests |-> 0, prompt |-> <<>> ]
             ELSE [ result   |-> << Requested(MethodOf(fn), o) >>,
                    inits    |-> g.inits,
                    requests |-> 1,
                    prompt   |-> PromptOf(MethodOf(fn), transcript) ]

\* what client.recognize does: it answers with results, or raises
RecognizeOutcomes ==
    [ kind : {"results"},
      results : { <<>>, << <<"a">> >>, << <<"a">>, <<"b", " ">> >> } ]
        \cup [ kind : {"raises"}, results : { <<>> } ]

\* lines 132-134: transcript += result.alternatives[0].transcript + " "
RECURSIVE JoinResults(_)
JoinResults(rs) ==
    IF rs = <<>> THEN <<>> ELSE Head(rs) \o <<" ">> \o JoinResults(Tail(rs))

\* transcribe_audio_file(audio_file, language_code), lines 89-140
transcribe_audio_file(how, init, o) ==
    LET credentials == get_credentials(how)
    IN  IF credentials = <<>>
        THEN [ result |-> <<>>, inits |-> 0, requests |-> 0 ]
        ELSE IF init = "raises"
             THEN [ result |-> <<>>, inits |-> 1, requests |-> 0 ]
             ELSE IF o.kind = "raises"
                  THEN [ result |-> <<>>, inits |-> 1, requests |-> 1 ]
                  ELSE [ result |-> << strip(JoinResults(o.results)) >>,
                         inits |-> 1, requests |-> 1 ]

\* the external initialisations made so far
InitsOf(c) == IF "inits" \in DOMAIN c THEN c.inits ELSE 0

\* a caller runs generate_medical_report or generate_ai_assessment
CallGenerate ==
    /\ call.pc \in {"idle", "returned", "constructed"}
    /\ call.calls < MaxCalls
    /\ \E fn \in GenerateFns, t \in SessionTexts, how \in CredentialLoads,
          init \in InitOutcomes, o \in ModelOutcomes :
          LET r == generate(fn, t, how, init, o)
          IN  call' = [ pc |-> "returned", op |-> fn, how |-> how,
                        calls |-> call.calls + 1,
                        requests |-> call.requests + r.requests,
                        inits |-> InitsOf(call) + r.inits,
                        result |-> r.result ]
    /\ UNCHANGED <<ledgerVars, writerVars, appVars>>

\* a caller runs transcribe_audio_file
CallTranscribe ==
    /\ call.pc \in {"idle", "returned", "constructed"}
    /\ call.calls < MaxCalls
    /\ \E how \in CredentialLoads, init \in InitOutcomes, o \in RecognizeOutcomes :
          LET r == transcribe_audio_file(how, init, o)
          IN  call' = [ pc |-> "returned", op |-> "transcribe_audio_file",
                        how |-> how,
                        calls |-> call.calls + 1,
                        requests |-> call.requests + r.requests,
                        inits |-> InitsOf(call) + r.inits,
                        result |-> r.result ]
    /\ UNCHANGED <<ledgerVars, writerVars, appVars>>

\* a caller constructs a MedicalReportGenerator
NewGenerator ==
    /\ call.pc \in {"idle", "returned", "constructed"}
    /\ call.calls < MaxCalls
    /\ \E credentials \in {<<>>, <<"credentials">>},
          credentials_path \in {<<>>, <<"key.json">>},
          path_load \in CredentialLoads, init \in InitOutcomes :
          LET g == MedicalReportGenerator(credentials, credentials_path, path_load, init)
          IN  call' = [ pc |-> "constructed", op |-> "MedicalReportGenerator",
                        credentials |-> credentials,
                        credentials_path |-> credentials_path,
                        calls |-> call.calls + 1,
                        requests |-> call.requests,
                        inits |-> InitsOf(call) + g.inits,
                        raised |-> g.raised ]
    /\ UNCHANGED <<ledgerVars, writerVars, appVars>>

NextCalls == SaveSession \/ CallGenerate \/ CallTranscribe \/ NewGenerator

\* the calls that need credentials, made beside a ledger that is being written
SpecCalls == InitLedger /\ [][NextCalls]_vars

----------------------------------------------------------------------------
(* The analysis buttons of main(), transcriber.py lines 866-918.  Pressing a *)
(* button makes Streamlit run main() again with that button true: the run    *)
(* first receives a transcript as every run does (lines 842-865), then runs  *)
(* the button's branch.  st.session_state.pdf_data exists only once the      *)
(* report branch has assigned it.                                            *)

\* truthiness of a value that is None or a string
TruthyOpt(v) == v # <<>> /\ Truthy(v[1])

\* create_pdf_report(report_text, transcript_text, transcription_id), lines
\* 184-254: the document, None when building it raised
create_pdf_report(report_text, transcript_text, transcription_id, now, how) ==
    IF how = "raises" THEN <<>>
    ELSE << PdfStory(report_text, transcript_text, transcription_id, now) >>

\* the session as lines 851-857 of a run leave it
Received(ss, qp) ==
    LET t == transcript_from_js(qp)
        r == save_transcription(file, strip(t), "web-speech-api", clock)
    IN  IF AcceptTranscript(t)
        THEN [ ss EXCEPT !.current_transcript = strip(t),
                         !.last_transcription_id = <<r.id>> ]
        ELSE ss

\* a report branch that builds the document without the transcription id
OnGenerateReport_Unnumbered(ss, result, now, how) ==
    LET stored == [ ss EXCEPT !.medical_report = result ]
    IN  IF TruthyOpt(result)
        THEN Put(stored, "pdf_data",
                 create_pdf_report(result[1], ss.current_transcript, <<>>, now, how))
        ELSE stored

\* lines 887-896: the branch of the Generate Medical Report button, given
\* what generate_medical_report returned
OnGenerateReport(ss, result, now, how) ==
    LET stored == [ ss EXCEPT !.medical_report = result ]
    IN  IF TruthyOpt(result)
        THEN Put(stored, "pdf_data",
                 create_pdf_report(result[1], ss.current_transcript,
                                   ss.last_transcription_id, now, how))
        ELSE stored

\* line 910: the Download PDF button is shown
DownloadOffered(ss) ==
    /\ TruthyOpt(ss.medical_report)
    /\ "pdf_data" \in DOMAIN ss
    /\ ss.pdf_data # <<>>

\* the prompt each function sent for the value it returned last
PromptsOf(c) ==
    IF "prompts" \in DOMAIN c THEN c.prompts ELSE [fn \in GenerateFns |-> <<>>]

\* the user presses Generate Medical Report (lines 885-896)
ClickGenerateReport ==
    /\ UserCanAct
    /\ Truthy(session_state.current_transcript)
    /\ call.calls < MaxCalls
    /\ \E how \in CredentialLoads, init \in InitOutcomes, o \in ModelOutcomes,
          pdf \in {"built", "raises"} :
          LET ss == Received(session_state, queryParams)
              r == generate("generate_medical_report", ss.current_transcript,
                            how, init, o)
          IN  /\ MainRun(OnGenerateReport(ss, r.result, clock, pdf), queryParams)
              /\ call' = [ pc |-> "rendered", op |-> "generate_medical_report",
                           calls |-> call.calls + 1,
                           requests |-> call.requests + r.requests,
                           failed |-> (r.requests = 1 /\ o.kind # "text"),
                           message |-> IF TruthyOpt(r.result)
                                       THEN "Medical report generated!"
                                       ELSE "Failed to generate medical report",
                           prompts |-> [PromptsOf(call) EXCEPT
                                           !["generate_medical_report"] = r.prompt] ]
    /\ UNCHANGED <<clock, ret, supported, scriptsRun>>
    /\ UNCHANGED <<writerVars, jsVars>>

\* the user presses Generate AI Assessment (lines 899-905)
ClickGenerateAssessment ==
    /\ UserCanAct
    /\ Truthy(session_state.current_transcript)
    /\ call.calls < MaxCalls
    /\ \E how \in CredentialLoads, init \in InitOutcomes, o \in ModelOutcomes :
          LET ss == Received(session_state, queryParams)
              r == generate("generate_ai_assessment", ss.current_transcript,
                            how, init, o)
          IN  /\ MainRun([ss EXCEPT !.ai_assessment = r.result], queryParams)
              /\ call' = [ pc |-> "rendered", op |-> "generate_ai_assessment",
                           calls |-> call.calls + 1,
                           requests |-> call.requests + r.requests,
                           failed |-> (r.requests = 1 /\ o.kind # "text"),
                           message |-> IF TruthyOpt(r.result)
                                       THEN "AI assessment generated!"
                                       ELSE "Failed to generate AI assessment",
                           prompts |-> [PromptsOf(call) EXCEPT
                                           !["generate_ai_assessment"] = r.prompt] ]
    /\ UNCHANGED <<clock, ret, supported, scriptsRun>>
    /\ UNCHANGED <<writerVars, jsVars>>

NextUi == OpenUrl \/ Rerun \/ ClickGenerateReport \/ ClickGenerateAssessment

\* the page with its analysis buttons: sessions opened with a query string,
\* reruns and button presses
SpecUi == InitLedger /\ [][NextUi]_vars

----------------------------------------------------------------------------
(* Reading the ledger back: MedicalReportGenerator.load_transcript_from_file *)
(* (medical_report_generator.py lines 353-393) and the history list of       *)
(* main() (transcriber.py lines 956-973).  A parsed JSON value carries its   *)
(* Python type and its content as a list of texts: the items of a list, the  *)
(* one text of a string, the digits of a number.                             *)

\* the most records of a ledger that is read back
MaxRecords == 12

\* sorted_transcriptions[:10] (line 973)
HistoryLimit == 10

NoneValue == [type |-> "NoneType", value |-> <<>>]

StrValue(text) == [type |-> "str", value |-> <<text>>]

\* '\n'.join(items) of a list of strings
RECURSIVE JoinLines(_)
JoinLines(items) ==
    IF items = <<>> THEN <<>>
    ELSE IF Len(items) = 1 THEN items[1]
         ELSE items[1] \o <<"\n">> \o JoinLines(Tail(items))

\* '\n'.join(v) of a parsed value: a list of strings is joined, a string is
\* joined character by character, anything else raises TypeError, which the
\* except clause of line 391 turns into None
Joined(v) ==
    IF v.type = "list" THEN StrValue(JoinLines(v.value))
    ELSE IF v.type = "str"
         THEN StrValue(JoinLines([i \in 1 .. Len(v.value[1]) |-> <<v.value[1][i]>>]))
         ELSE NoneValue

\* int(s) does not raise ValueError
IsDecimal(s) == s # <<>> /\ \A i \in 1 .. Len(s) : \E d \in 0 .. 9 : Digit(d) = s[i]

\* int(s) of a decimal string
RECURSIVE int(_)
int(s) ==
    LET last == CHOOSE d \in 0 .. 9 : Digit(d) = s[Len(s)]
    IN  IF Len(s) = 1 THEN last ELSE 10 * int(SubSeq(s, 1, Len(s) - 1)) + last

\* max(transcriptions.keys(), key=int) (line 374)
latest_key(transcriptions) ==
    CHOOSE k \in DOMAIN transcriptions :
        \A j \in DOMAIN transcriptions : int(j) <= int(k)

\* lines 368-387: what is returned for the parsed document, and the key that
\* was selected (<<>>: none)
FromData(data) ==
    IF data.type = "dict"
    THEN LET d == data.members
         IN  IF "transcriptions" \in DOMAIN d
             THEN IF DOMAIN d.transcriptions = {}
                  THEN [ returned |-> NoneValue, latest |-> <<>> ]
                  ELSE IF \E k \in DOMAIN d.transcriptions : ~IsDecimal(k)
                       THEN [ returned |-> NoneValue, latest |-> <<>> ]
                       ELSE LET key == latest_key(d.transcriptions)
                                latest_transcript == d.transcriptions[key]
                            IN  [ returned |->
                                    StrValue(JoinLines(
                                        IF "session_transcript" \in DOMAIN latest_transcript
                                        THEN latest_transcript.session_transcript
                                        ELSE <<>>)),
                                  latest |-> <<key>> ]
             ELSE IF "transcript" \in DOMAIN d
                  THEN [ returned |-> d.transcript, latest |-> <<>> ]
                  ELSE IF "session_transcript" \in DOMAIN d
                       THEN [ returned |-> Joined(d.session_transcript), latest |-> <<>> ]
                       ELSE [ returned |-> NoneValue, latest |-> <<>> ]
    ELSE IF data.type \in {"list", "numbers"}
         THEN [ returned |-> Joined(data), latest |-> <<>> ]
         ELSE [ returned |-> StrValue(data.value[1]), latest |-> <<>> ]

\* load_transcript_from_file(file_path) on a file that is missing, holds text
\* under a path that does not end in .json, holds text that is not JSON, or
\* holds a JSON document
load_transcript_from_file(f) ==
    IF f.kind \in {"missing", "invalid"}
    THEN [ returned |-> NoneValue, latest |-> <<>> ]
    ELSE IF f.kind = "text"
         THEN [ returned |-> StrValue(f.text), latest |-> <<>> ]
         ELSE FromData(f.data)

\* sorted(transcriptions.items(), key=lambda x: int(x[0]), reverse=True)
RECURSIVE SortedDescending(_)
SortedDescending(transcriptions) ==
    IF DOMAIN transcriptions = {} THEN <<>>
    ELSE LET k == latest_key(transcriptions)
         IN  <<k>> \o SortedDescending(
                          [x \in (DOMAIN transcriptions) \ {k} |-> transcriptions[x]])

\* lines 956-973: the ids the history lists, in the order it lists them
HistoryShown(f) ==
    LET sorted_transcriptions == SortedDescending(load_transcription_counter(f).transcriptions)
    IN  SubSeq(sorted_transcriptions, 1,
               IF Len(sorted_transcriptions) < HistoryLimit
               THEN Len(sorted_transcriptions) ELSE HistoryLimit)

\* the ledger document that holds records under the given ids
LedgerOf(idset, counter, session) ==
    [ counter        |-> counter,
      transcriptions |->
          [ k \in { str(i) : i \in idset } |->
              IF session
              THEN [ timestamp |-> 0, session_transcript |-> << <<"s">> \o k, <<"x">> >>,
                     word_count |-> 2, language |-> "en-US" ]
              ELSE new_transcription(<<"t">> \o k, "en-US", 0) ],
      last_updated   |-> 0 ]

\* the ledgers read back: after many appends, after records were deleted, and
\* written with a list of segments per record
LedgerDocs ==
    { LedgerOf(1 .. n, n, FALSE) : n \in {HistoryLimit, MaxRecords} }
        \cup { LedgerOf({9, 10}, 10, s) : s \in BOOLEAN }

\* the other files load_transcript_from_file is given
OtherFiles ==
    { [kind |-> "missing"], [kind |-> "invalid"],
      [kind |-> "text", text |-> <<"a", "\n", "b">>] }
    \cup { [kind |-> "json", data |-> [type |-> "dict", members |-> m]] :
            m \in { [transcript |-> StrValue(<<"a">>)],
                    [transcript |-> [type |-> "int", value |-> << <<"5">> >>]],
                    [transcript |-> [type |-> "list", value |-> << <<"a">> >>]],
                    [session_transcript |-> [type |-> "list", value |-> << <<"a">>, <<"b">> >>]],
                    [session_transcript |-> StrValue(<<"a", "b">>)],
                    [session_transcript |-> [type |-> "int", value |-> << <<"5">> >>]],
                    [text |-> StrValue(<<"a">>)],
                    [transcriptions |-> EmptyMap, transcript |-> StrValue(<<"a">>)],
                    [transcriptions |-> [k \in {<<"x">>} |-> new_transcription(<<"a">>, "en-US", 0)]] } }
    \cup { [kind |-> "json", data |-> v] :
            v \in { [type |-> "list", value |-> << <<"a">>, <<"b">> >>],
                    [type |-> "numbers", value |-> << <<"5">> >>],
                    [type |-> "int", value |-> << <<"5">> >>],
                    StrValue(<<"a">>) } }

\* the ledger file as load_transcript_from_file finds it
LedgerFile ==
    IF file = <<>> THEN [kind |-> "missing"]
    ELSE [kind |-> "json", data |-> [type |-> "dict", members |-> file[1]]]

\* a caller runs load_transcript_from_file on the ledger file
ReadLedger ==
    /\ LET r == load_transcript_from_file(LedgerFile)
       IN  call' = [ pc |-> "read", op |-> "load_transcript_from_file",
                     calls |-> 1, requests |-> 0,
                     given |-> "ledger",
                     returned |-> r.returned, latest |-> r.latest, raised |-> FALSE ]
    /\ UNCHANGED <<ledgerVars, writerVars, appVars>>

\* a caller runs load_transcript_from_file on another file
ReadDocument ==
    /\ \E f \in OtherFiles :
          LET r == load_transcript_from_file(f)
          IN  call' = [ pc |-> "read", op |-> "load_transcript_from_file",
                        calls |-> 1, requests |-> 0,
                        given |-> f.kind,
                        returned |-> r.returned, latest |-> r.latest, raised |-> FALSE ]
    /\ UNCHANGED <<ledgerVars, writerVars, appVars>>

\* main() renders the history list
ShowHistory ==
    /\ call' = [ pc |-> "listed", op |-> "history", calls |-> 1, requests |-> 0,
                 shown |-> HistoryShown(file) ]
    /\ UNCHANGED <<ledgerVars, writerVars, appVars>>

\* the ledger was left by earlier runs, or there is none yet
InitRead ==
    /\ file \in {<<>>} \cup { <<d>> : d \in LedgerDocs }
    /\ dirExists = (file # <<>>)
    /\ clock = 0
    /\ ret = NoRet
    /\ ids = <<>>
    /\ wpc = [w \in {1, 2} |-> "idle"]
    /\ wlocal = [w \in {1, 2} |-> load_transcription_counter(<<>>)]
    /\ wtext = [w \in {1, 2} |-> <<>>]
    /\ wret = [w \in {1, 2} |-> 0]
    /\ supported = TRUE
    /\ scriptsRun = TRUE
    /\ JsLoaded
    /\ queryParams = EmptyMap
    /\ session_state = FreshSession
    /\ call = NoCall

NextRead == SaveSession \/ ReadLedger \/ ReadDocument \/ ShowHistory

\* the ledger appended to and read back
SpecRead == InitRead /\ [][NextRead]_vars

----------------------------------------------------------------------------
(* Claims about the ledger *)

Records == IF file = <<>> THEN EmptyMap ELSE file[1].transcriptions

Blank(s) == strip(s) = <<>>

\* C1: from an absent file, the ids one writer's successive save_transcription
\* calls return start at 1 and each is the previous one (the persisted
\* counter) plus 1, hence strictly increasing.
C1_IdsIncreaseFromOne ==
    /\ Len(ids) >= 1 => ids[1] = 1
    /\ \A i \in 1 .. Len(ids) - 1 : ids[i + 1] = ids[i] + 1 /\ ids[i + 1] > ids[i]
    /\ Len(ids) >= 1 => file # <<>> /\ file[1].counter = ids[Len(ids)]

\* three calls with non-empty text returned 1, 2, 3
C1_Witness ==
    /\ ids = <<1, 2, 3>>
    /\ \A k \in DOMAIN Records : ~Blank(Records[k].transcript)

\* C2: a save_transcription call with empty or all-whitespace text returns no id
\* and leaves the persisted document as it was.
C2_BlankTextRejected ==
    [][(ret'.op = "save" /\ Blank(ret'.text)) => (ret'.id = <<>> /\ file' = file)]_vars

\* C3: load_transcription_counter without a file returns (0, {}) and neither
\* creates the file nor the directory.
C3_LoadMissing ==
    [][(ret'.op = "load" /\ file = <<>>) =>
          /\ ret'.value = [counter |-> 0, transcriptions |-> EmptyMap]
          /\ file' = <<>>
          /\ dirExists' = dirExists]_vars

\* a load has returned while there is no file
C3_Witness == ret.op = "load" /\ file = <<>> /\ ret.value.counter = 0

\* C4: with records deleted from the document in between (counter untouched),
\* no id returned by save_transcription equals one returned earlier.
C4_IdsNeverReused ==
    \A i, j \in 1 .. Len(ids) : i # j => ids[i] # ids[j]

\* a save has returned after the record of an earlier id was deleted
C4_Witness ==
    /\ ret.op = "save"
    /\ Len(ids) >= 2
    /\ \E i \in 1 .. Len(ids) - 1 : str(ids[i]) \notin DOMAIN Records

\* C5: when both writers loaded the same counter and both have written, they
\* returned the same id and the document gained one record, not two.
C5_LostUpdate ==
    (wpc[1] = "done" /\ wpc[2] = "done" /\ wlocal[1].counter = wlocal[2].counter) =>
        /\ wret[1] = wret[2]
        /\ file[1].counter = wret[1]
        /\ \A w \in Writers :
              Cardinality(DOMAIN Records) = Cardinality(DOMAIN wlocal[w].transcriptions) + 1

\* both writers read counter 0, both returned id 1, and the record of one of them is gone
C5_Witness ==
    /\ wpc[1] = "done" /\ wpc[2] = "done"
    /\ wlocal[1].counter = 0 /\ wlocal[2].counter = 0
    /\ wret[1] = 1 /\ wret[2] = 1
    /\ wtext[1] # wtext[2]
    /\ DOMAIN Records = {str(1)}
    /\ \E w \in Writers : Records[str(1)].transcript # wtext[w]

----------------------------------------------------------------------------
(* Claims about the capture session and the page *)

RecordsOf(f) == IF f = <<>> THEN EmptyMap ELSE f[1].transcriptions

\* the finals, each followed by a space, one after the other
RECURSIVE JoinFinals(_)
JoinFinals(fs) ==
    IF fs = <<>> THEN <<>> ELSE Head(fs) \o <<" ">> \o JoinFinals(Tail(fs))

\* C6: a capture session without a non-empty final persists nothing: Save stays
\* disabled for it, no blank transcript is ever posted to the application, and
\* every record in the ledger holds text with a non-whitespace character.
C6_NothingBlankPersisted ==
    /\ ~saveDisabled => ~Blank(finalTranscript)
    /\ \A i \in 1 .. Len(inbox) : ~Blank(inbox[i])
    /\ \A k \in DOMAIN Records : ~Blank(Records[k].transcript)
    /\ session_state.last_transcription_id # <<>> =>
          ~Blank(session_state.current_transcript)

\* a session that got only a blank final has ended, a blank transcript has been
\* offered to main(), and the ledger holds what was stored before
C6_Witness ==
    /\ recState = "idle" /\ status = "nospeech" /\ emitted = << <<>> >>
    /\ saveDisabled /\ inbox = <<>>
    /\ "transcript" \in DOMAIN queryParams /\ Blank(queryParams["transcript"])
    /\ DOMAIN Records = {str(1)}

\* C7: when the transcript the user saved reaches the page's listener and the
\* page has reloaded, a record with exactly that text has been appended to the
\* ledger and its id is last_transcription_id.
C7_SavedSessionIsAppended ==
    [][(ParentMessage /\ scriptsRun) =>
          /\ session_state'.last_transcription_id # <<>>
          /\ LET key == str(session_state'.last_transcription_id[1])
             IN  /\ key \in DOMAIN RecordsOf(file')
                 /\ key \notin DOMAIN RecordsOf(file)
                 /\ RecordsOf(file')[key].transcript = Head(inbox)]_vars

\* C8: starting the recognition again after it ended keeps the finals
\* received so far: what follows is appended to them.
C8_FinalsSurviveRestart ==
    [][(recState = "idle" /\ recState' = "starting" /\ ~Blank(finalTranscript)) =>
          finalTranscript' = finalTranscript]_vars

\* C9: the recognizer only goes idle -> starting -> running -> (ending ->) idle,
\* a Start click has an effect only while it is idle and a Stop click only
\* while it is running.
C9_StartStopOnlyInState ==
    [][ /\ recState' # recState =>
              <<recState, recState'>> \in
                 { <<"idle", "starting">>, <<"starting", "running">>,
                   <<"starting", "ending">>, <<"running", "ending">>,
                   <<"running", "idle">>, <<"ending", "idle">>,
                   <<"starting", "idle">> }
        /\ ClickStart => recState = "idle"
        /\ ClickStop => recState = "running" ]_vars

\* C10: while a capture session lasts, the accumulated final transcript is the
\* concatenation, in delivery order, of the finals delivered in it.
C10_FinalsAreWhatWasDelivered ==
    recState # "idle" => finalTranscript = JoinFinals(emitted)

----------------------------------------------------------------------------
(* Claims about patch_duration and the shape of the document *)

\* C11: after patch_duration(id, d) on an existing record, loading the ledger
\* again yields that record with duration_seconds = d and its other fields as
\* they were, every other record as it was, and the counter as it was.
C11_PatchSetsOnlyDuration ==
    [][(ret'.op = "patch" /\ file # <<>> /\ str(ret'.id[1]) \in DOMAIN Records) =>
          LET key == str(ret'.id[1])
              before == load_transcription_counter(file)
              after == load_transcription_counter(file')
          IN  /\ after.counter = before.counter
              /\ DOMAIN after.transcriptions = DOMAIN before.transcriptions
              /\ \A k \in DOMAIN before.transcriptions \ {key} :
                    after.transcriptions[k] = before.transcriptions[k]
              /\ DOMAIN after.transcriptions[key] =
                    DOMAIN before.transcriptions[key] \cup {"duration_seconds"}
              /\ after.transcriptions[key].duration_seconds = ret'.duration
              /\ \A fld \in DOMAIN before.transcriptions[key] \ {"duration_seconds"} :
                    after.transcriptions[key][fld] = before.transcriptions[key][fld]]_vars

\* record 1 has been patched twice, last to 2, while record 2 is stored unpatched
C11_Witness ==
    /\ ret.op = "patch" /\ ret.id = <<1>> /\ ret.duration = 2
    /\ {str(1), str(2)} \subseteq DOMAIN Records
    /\ "duration_seconds" \in DOMAIN Records[str(1)]
    /\ Records[str(1)].duration_seconds = 2
    /\ "duration_seconds" \notin DOMAIN Records[str(2)]

\* C12: every document save_transcription persists has exactly the members
\* counter, transcriptions and last_updated, and each record, keyed by the
\* string of its id, carries timestamp, session_transcript (a list of
\* strings), word_count, duration_seconds and language.
C12_DocumentShape ==
    file # <<>> =>
        /\ DOMAIN file[1] = {"counter", "transcriptions", "last_updated"}
        /\ \A k \in DOMAIN Records :
              /\ \E id \in 1 .. file[1].counter : k = str(id)
              /\ DOMAIN Records[k] = {"timestamp", "session_transcript", "word_count",
                                      "duration_seconds", "language"}
              /\ \A i \in 1 .. Len(Records[k].session_transcript) :
                    Records[k].session_transcript[i] \in Texts

\* every record of document f is in document g, field for field as it was
Kept(f, g) ==
    \A k \in DOMAIN RecordsOf(f) :
        k \in DOMAIN RecordsOf(g) /\ RecordsOf(g)[k] = RecordsOf(f)[k]

\* document g is document f with exactly one record more, under the string of
\* g's counter
OneAdded(f, g) ==
    /\ g # <<>>
    /\ str(g[1].counter) \notin DOMAIN RecordsOf(f)
    /\ DOMAIN RecordsOf(g) = DOMAIN RecordsOf(f) \cup {str(g[1].counter)}

\* C13: the ledger is append-only: every write of save_transcription adds
\* exactly one new record under the new id and leaves every stored record
\* present and unchanged, and no step removes a record.
C13_AppendOnly ==
    [][ /\ Kept(file, file')
        /\ file' # file => OneAdded(file, file') ]_vars

\* C13 as amended: a write of save_transcription whose writer loaded the
\* document as it still is adds exactly one new record under the new id and
\* leaves every stored record present and unchanged; no step other than a
\* write of save_transcription changes the document.
C13_AppendOnlyWhenNotOvertaken ==
    [][ /\ \A w \in Writers :
              (wpc[w] = "loaded" /\ wpc'[w] = "done"
                  /\ wlocal[w] = load_transcription_counter(file)) =>
                      /\ Kept(file, file')
                      /\ OneAdded(file, file')
                      /\ file'[1].counter = wret'[w]
        /\ (\A w \in Writers : ~(wpc[w] = "loaded" /\ wpc'[w] = "done")) =>
              file' = file ]_vars

\* two writes that did not overlap: writer 1 stored id 1, then writer 2 loaded
\* and stored id 2, and both records are there
C13_Witness ==
    /\ wret[1] = 1 /\ wret[2] = 2 /\ wpc[2] = "done"
    /\ wlocal[2].counter = 1
    /\ DOMAIN Records = {str(1), str(2)}
    /\ Records[str(1)].transcript = wtext[1]

----------------------------------------------------------------------------
(* Claims about the report requestor, the exports and the layout *)

\* C14: a call of analyze_transcript or generate_ai_assessment sends exactly
\* one request (there are as many requests as calls, none is repeated), never
\* raises, and returns the model's text as it is or, when the request or the
\* reading of its text fails, the error message in place of the report.
C14_OneRequestNoRaise ==
    /\ call.requests = call.calls
    /\ call.pc = "returned" =>
          /\ ~call.raised
          /\ call.outcome.kind = "text" => call.result = call.outcome.text
          /\ call.outcome.kind # "text" =>
                call.result = ErrorPrefix(call.fn) \o call.outcome.text

\* the second call's request failed and the call returned the message
C14_Witness ==
    /\ call.pc = "returned" /\ call.calls = 2 /\ call.requests = 2
    /\ call.fn = "generate_ai_assessment"
    /\ call.outcome.kind = "raises"
    /\ call.result = <<"Error generating AI assessment: ", "q", "u", "o", "t", "a">>

\* the number of '\n' in a text
RECURSIVE Newlines(_)
Newlines(text) ==
    IF text = <<>> THEN 0
    ELSE (IF Head(text) = "\n" THEN 1 ELSE 0) + Newlines(Tail(text))

NotCR(c) == c # "\r"

\* save_report has returned a path
Exported == call.pc = "exported" /\ call.returned # <<>>

\* C15: the file save_report wrote holds exactly the report, nothing before,
\* after or inside it changed, and save_report returns the path it wrote,
\* None only when the write failed.
C15_TextExportExact ==
    call.pc = "exported" =>
        /\ call.returned = <<>> <=> call.how # "ok"
        /\ call.returned # <<>> =>
              /\ call.returned[1] = call.path
              /\ call.path \in DOMAIN call.fs
              /\ call.fs[call.path] = call.report

\* C15 as amended: the file save_report wrote holds the report with each '\n'
\* written as the platform's line separator and nothing else added, removed
\* or changed (so exactly the report where the separator is '\n'), and
\* save_report returns the path it wrote, None only when the write failed.
C15_TextExportUpToLineSep ==
    call.pc = "exported" =>
        /\ call.returned = <<>> <=> call.how # "ok"
        /\ call.returned # <<>> =>
              /\ call.returned[1] = call.path
              /\ call.path \in DOMAIN call.fs
              /\ LET written == call.fs[call.path]
                 IN  /\ call.linesep = <<"\n">> => written = call.report
                     /\ SelectSeq(written, NotCR) = call.report
                     /\ Len(written) = Len(call.report)
                           + (Len(call.linesep) - 1) * Newlines(call.report)
                     /\ \A i \in 1 .. Len(written) :
                           (written[i] = "\n" /\ call.linesep # <<"\n">>) =>
                               (i > 1 /\ written[i - 1] = "\r")

\* a report with line breaks was saved under the default path where the line
\* separator is "\r\n", after a save that failed
C15_Witness ==
    /\ Exported /\ call.op = "save_report" /\ call.calls = 2
    /\ call.linesep = <<"\r", "\n">>
    /\ call.report = <<"a", "\n", "\n", "b", "\n">>
    /\ call.path = DefaultPath(clock)
    /\ <<"out.txt">> \in DOMAIN call.fs /\ call.fs[<<"out.txt">>] = <<>>

\* C16: the JSON file main() writes deserializes to an object that holds the
\* transcript it analysed, character for character, under its transcript key
\* (original_transcript), next to the report (generated_report).
C16_JsonKeepsTranscript ==
    (call.pc = "exported" /\ call.op = "main" /\ call.jhow = "ok") =>
        /\ call.json_output \in DOMAIN call.fs
        /\ LET obj == json_load(call.fs[call.json_output])
           IN  /\ DOMAIN obj = { <<"timestamp">>, <<"original_transcript">>,
                                 <<"generated_report">>, <<"model_used">> }
               /\ obj[<<"original_transcript">>] = call.transcript
               /\ obj[<<"generated_report">>] = call.report

\* a transcript with a quote and a backslash and a report with line breaks
\* were exported where the line separator is "\r\n"
C16_Witness ==
    /\ call.pc = "exported" /\ call.op = "main" /\ call.jhow = "ok"
    /\ call.linesep = <<"\r", "\n">>
    /\ call.transcript = <<"\"", "a", "\\">>
    /\ Newlines(call.report) > 0
    /\ json_load(call.fs[call.json_output])[<<"original_transcript">>] = <<"\"", "a", "\\">>

----------------------------------------------------------------------------
(* Claims about failures and the end of a capture session *)

\* C17: when the microphone cannot be opened, the recognizer reports the
\* error before it ever started and then ends; neither step writes the ledger
\* or posts a transcript, and the end leaves the component idle with Start
\* available, Stop not, Save not, no timer running and no transcript.
C17_MicFailureLeavesIdle ==
    [][ /\ (OnError /\ recState = "starting") =>
              (file' = file /\ inbox' = inbox /\ finalTranscript' = finalTranscript)
        /\ (OnEnd /\ ~isRecognizing) =>
              /\ recState' = "idle"
              /\ ~startDisabled' /\ stopDisabled' /\ saveDisabled'
              /\ timers' = 0 /\ ~timerLive'
              /\ finalTranscript' = <<>> /\ ~isRecognizing'
              /\ file' = file /\ inbox' = inbox ]_vars

\* a start failed: the recognizer ended without having started
C17_Witness ==
    /\ recState = "idle" /\ status = "nospeech"
    /\ interimDisplay = <<>> /\ emitted = <<>>
    /\ ~startDisabled /\ stopDisabled /\ saveDisabled
    /\ timers = 0

\* C18: a recognizer error while recording changes only the status line: the
\* finals accumulated so far, the recognition flag and the buttons stay as
\* they are and the recognizer goes on or ends by itself; when the recognition
\* then ends with finals, Save is enabled and posts exactly those finals.
C18_ErrorKeepsSession ==
    [][ /\ (OnError /\ recState = "running") =>
              /\ recState' \in {"running", "ending"}
              /\ finalTranscript' = finalTranscript
              /\ finalDisplay' = finalDisplay
              /\ isRecognizing' = isRecognizing
              /\ <<startDisabled', stopDisabled', saveDisabled'>> =
                    <<startDisabled, stopDisabled, saveDisabled>>
              /\ file' = file /\ inbox' = inbox
        /\ (OnEnd /\ ~Blank(finalTranscript)) =>
              (~saveDisabled' /\ finalTranscript' = finalTranscript)
        /\ ClickSave => inbox' = Append(inbox, strip(finalTranscript)) ]_vars

\* the recognizer reported an error while recording, after the final "a"; Stop
\* is still available
C18_Witness ==
    /\ recState = "running" /\ status = "error"
    /\ finalTranscript = <<"a", " ">> /\ emitted = << <<"a">> >>
    /\ isRecognizing /\ ~stopDisabled

\* C19: once Stop was requested while recording (the recognizer is stopping),
\* the recognizer's end event being scheduled fairly, the component
\* eventually is idle with the timer stopped, Start available and Stop not.
C19_StopTerminates ==
    (recState = "ending" /\ isRecognizing) ~>
        (recState = "idle" /\ ~isRecognizing /\ timers = 0 /\ ~timerLive
            /\ ~startDisabled /\ stopDisabled)

\* Stop was clicked while recording: the recognizer is stopping, the timer
\* still runs and Stop is still enabled
C19_Witness ==
    /\ recState = "ending" /\ isRecognizing /\ status = "listening"
    /\ timers = 1 /\ ~stopDisabled /\ startDisabled

----------------------------------------------------------------------------
(* Claims about the PDF layout *)

\* the paragraph the claim gives a line: a heading without the leading '##'
\* and the rest of the line as it is (whitespace around it aside), a normal
\* paragraph with the whole line otherwise
ClaimedParagraph(line) ==
    IF StartsWith(line, <<"#", "#">>)
    THEN Para(strip(SubSeq(line, 3, Len(line))), "Heading3")
    ELSE Para(line, "Normal")

RECURSIVE ClaimedParagraphs(_)
ClaimedParagraphs(lines) ==
    IF lines = <<>> THEN <<>>
    ELSE (IF Blank(Head(lines)) THEN <<>> ELSE << ClaimedParagraph(Head(lines)) >>)
         \o ClaimedParagraphs(Tail(lines))

IsParagraph(f) == f.kind = "Paragraph"

\* C20: after the section's title, the paragraphs create_pdf_report lays out
\* for a report are, in line order, exactly one per non-blank line: a heading
\* holding the rest of the line for a line that starts with '##', a normal
\* paragraph holding the line otherwise; blank lines give nothing.
C20_LayoutByLinePrefix ==
    (call.pc = "laid out" /\ call.report # <<>>) =>
        Tail(SelectSeq(call.section, IsParagraph)) =
            ClaimedParagraphs(SplitLines(call.report))

----------------------------------------------------------------------------
(* Claims about credentials, the analysis buttons and reading the ledger *)

TokenStarts(t) ==
    { i \in 1 .. Len(t) : ~IsSpace(t[i]) /\ (i = 1 \/ IsSpace(t[i - 1])) }

\* C22: every record of the ledger has word_count equal to the number of
\* whitespace-delimited tokens of the transcript stored in the same record.
C22_WordCountIsTokenCount ==
    \A k \in DOMAIN Records :
        Records[k].word_count = Cardinality(TokenStarts(Records[k].transcript))

\* the ledger holds a record of two words and a record of none
C22_Witness ==
    /\ \E k \in DOMAIN Records :
          Records[k].word_count = 2 /\ Len(Records[k].transcript) = 3
    /\ \E k \in DOMAIN Records :
          Records[k].word_count = 0 /\ Records[k].transcript # <<>>

\* C23: whenever the ledger file exists after single-writer appends that began
\* without a file, its counter is the number of records, the record keys are
\* exactly the decimal strings of 1 .. counter, and last_updated is the
\* timestamp of the record whose id is the counter.
C23_DocumentConsistent ==
    file # <<>> =>
        LET doc == file[1]
        IN  /\ doc.counter = Cardinality(DOMAIN doc.transcriptions)
            /\ DOMAIN doc.transcriptions = { str(i) : i \in 1 .. doc.counter }
            /\ doc.last_updated = doc.transcriptions[str(doc.counter)].timestamp

\* three appends with the clock advancing between the first and the last
C23_Witness ==
    /\ file # <<>>
    /\ file[1].counter = 3
    /\ file[1].transcriptions[str(1)].timestamp = 0
    /\ file[1].last_updated = 1

\* C24: the reset that saveTranscript schedules never acts on a later session:
\* when it fires while a recognition session started after the save is under
\* way, it leaves that session's accumulated finals, its buttons and its
\* timer as they are.
C24_ResetSparesLaterSession ==
    [][ (resetPending' = resetPending - 1 /\ recState # "idle" /\ recState' = recState)
          => /\ finalTranscript' = finalTranscript
             /\ startDisabled' = startDisabled
             /\ stopDisabled' = stopDisabled
             /\ saveDisabled' = saveDisabled
             /\ timers' = timers
             /\ timerLive' = timerLive ]_vars

\* C25: in every reachable state of the speech component the buttons agree
\* with the session: while a session is starting or active Start is disabled
\* and Stop is enabled; while idle Stop is disabled; Save is enabled only
\* when the session is idle and the accumulated finals are non-empty after
\* trimming.
C25_ButtonsAgreeWithSession ==
    /\ recState \in {"starting", "running"} => (startDisabled /\ ~stopDisabled)
    /\ recState = "idle" => stopDisabled
    /\ ~saveDisabled => (recState = "idle" /\ Truthy(strip(finalTranscript)))

\* the message analyze_transcript returns for a request that failed
ReportErrors == { ErrorPrefix("analyze_transcript") \o e : e \in ErrorTexts }

\* a run in which the Generate Medical Report button was pressed
ReportPressed ==
    call' # call /\ call'.pc = "rendered" /\ call'.op = "generate_medical_report"

\* C26: when the model request behind Generate Medical Report fails, the run
\* takes the failure branch: no medical report is stored, no PDF is on offer
\* and failure, not success, is reported; a stored medical_report is always
\* the text of a successful model response.
C26_FailedRequestTakesFailureBranch ==
    [][ ReportPressed =>
          /\ call'.failed =>
                /\ ~TruthyOpt(session_state'.medical_report)
                /\ ~DownloadOffered(session_state')
                /\ call'.message = "Failed to generate medical report"
          /\ TruthyOpt(session_state'.medical_report) =>
                session_state'.medical_report[1] \in ModelTexts ]_vars

\* C26 as the code has it: a failed request comes back as the message
\* "Error generating medical report: <error>", which the run stores as the
\* medical report, builds the PDF from and reports as success.  The failure
\* branch is taken exactly when generate_medical_report returned None or an
\* empty text; that run stores no report text and assigns no PDF.  A stored
\* non-empty medical_report is the text of a model response or that message.
C26_FailedRequestStoredAsReport ==
    [][ ReportPressed =>
          /\ call'.failed =>
                /\ session_state'.medical_report # <<>>
                /\ session_state'.medical_report[1] \in ReportErrors
                /\ call'.message = "Medical report generated!"
                /\ "pdf_data" \in DOMAIN session_state'
                /\ session_state'.pdf_data # <<>> =>
                      \E now \in 0 .. MaxClock :
                          session_state'.pdf_data =
                              create_pdf_report(session_state'.medical_report[1],
                                                session_state'.current_transcript,
                                                session_state'.last_transcription_id,
                                                now, "built")
          /\ call'.message = "Failed to generate medical report"
                <=> ~TruthyOpt(session_state'.medical_report)
          /\ call'.message = "Failed to generate medical report" =>
                /\ "pdf_data" \in DOMAIN session_state'
                      <=> "pdf_data" \in DOMAIN session_state
                /\ "pdf_data" \in DOMAIN session_state =>
                      session_state'.pdf_data = session_state.pdf_data
          /\ TruthyOpt(session_state'.medical_report) =>
                session_state'.medical_report[1] \in ModelTexts \cup ReportErrors ]_vars

\* the request of the last press failed, success was reported and the PDF of
\* the error message can be downloaded
C26_Witness ==
    /\ call.pc = "rendered"
    /\ call.op = "generate_medical_report"
    /\ call.failed
    /\ call.message = "Medical report generated!"
    /\ DownloadOffered(session_state)
    /\ session_state.medical_report[1] \in ReportErrors

\* what the session stores belongs to its current transcript
StoredFromCurrent(ss, c) ==
    /\ ss.medical_report # <<>> =>
          PromptsOf(c)["generate_medical_report"]
              = PromptOf("analyze_transcript", ss.current_transcript)
    /\ ss.ai_assessment # <<>> =>
          PromptsOf(c)["generate_ai_assessment"]
              = PromptOf("generate_ai_assessment", ss.current_transcript)
    /\ DownloadOffered(ss) =>
          /\ \E now \in 0 .. MaxClock :
                ss.pdf_data = create_pdf_report(ss.medical_report[1],
                                                ss.current_transcript,
                                                ss.last_transcription_id,
                                                now, "built")
          /\ ss.last_transcription_id # <<>>
          /\ str(ss.last_transcription_id[1]) \in DOMAIN Records
          /\ Records[str(ss.last_transcription_id[1])].transcript
                = ss.current_transcript

C28_ReadReturnsLastAppended ==
    [][ (call' # call /\ call'.pc = "read" /\ call'.given = "ledger"
           /\ ret.op = "save")
          => call'.returned = StrValue(ret.text) ]_vars

\* the ids of the records the ledger holds
IdsStored == { n \in 1 .. MaxRecords + 1 : str(n) \in DOMAIN Records }

\* the id with exactly i - 1 stored ids above it
Ranked(i) ==
    CHOOSE g \in IdsStored : Cardinality({ m \in IdsStored : m > g }) = i - 1

\* C30, the selection: reading a ledger that holds a record selects the
\* record with the numerically greatest id.
C30_SelectsGreatestId ==
    (call' # call /\ call'.pc = "read" /\ call'.given = "ledger" /\ IdsStored # {})
        => call'.latest = << str(Ranked(1)) >>

\* C30, the history: it lists the ids in descending numeric order and shows
\* the 10 greatest at most.
C30_HistoryDescending ==
    (call' # call /\ call'.pc = "listed")
        => /\ Len(call'.shown) = IF Cardinality(IdsStored) < HistoryLimit
                                 THEN Cardinality(IdsStored) ELSE HistoryLimit
           /\ \A i \in 1 .. Len(call'.shown) : call'.shown[i] = str(Ranked(i))

\* C30: for a ledger-format document with at least one record
\* load_transcript_from_file selects the record with the numerically greatest
\* id, the history lists the records in descending numeric id order and shows
\* at most the 10 greatest, and for every document shape
\* load_transcript_from_file returns a string or None and does not raise.
C30_GreatestIdAndStringOrNone ==
    [][ /\ C30_SelectsGreatestId
        /\ C30_HistoryDescending
        /\ (call' # call /\ call'.pc = "read")
              => /\ call'.returned.type \in {"str", "NoneType"}
                 /\ ~call'.raised ]_vars

====
